---- MODULE Spec2Model ----
(***************************************************************************)
(* CDCUsb (valentyusb/usbcore/cpu/cdc_eptri.py): the descriptor table      *)
(* built at elaboration and the control-transfer state machine `config`    *)
(* that answers SETUP packets, streams descriptors, latches the device     *)
(* address and echoes bulk endpoint 2.                                     *)
(*                                                                         *)
(* One step of Clock is one clock edge.  The variables hold the registers  *)
(* and, for the cycle they describe, the values the endpoint engine        *)
(* presents on its status registers; signals driven combinationally in     *)
(* that cycle (strobes, resolver outputs) are operators over them.         *)
(* A 32-bit request word does not fit TLC's integers, so usbPacket is kept *)
(* as its four bytes, most significant first, and a table key as the pair  *)
(* <<wRequestAndType, wValue>>.                                            *)
(***************************************************************************)
EXTENDS Integers, Sequences, FiniteSets, TLC

VARIABLES
    cfg,              \* constructor arguments: vid, pid, product, manufacturer
    contents,         \* mem.contents, the blob that initialises out_buffer
    offsets,          \* mem.offsets
    lengths,          \* mem.lengths
    nadd,             \* number of mem.add calls done so far
    pending,          \* the mem.add calls still to be made, in order
    fsm,              \* config.state
    setup_index,      \* Signal(4)
    usbPacket,        \* Signal(32), as four bytes, most significant first
    wLength,          \* Signal(8)
    new_address,      \* Signal(7)
    bytes_addr,       \* Signal(9)
    bytes_remaining,  \* Signal(6)
    delayed_re,       \* Signal()
    dat_r,            \* out_buffer_rd.dat_r, the registered read-port output
    address,          \* usb.address.storage (addr field)
    setup_have,       \* usb.setup_status.fields.have
    setup_is_in,      \* usb.setup_status.fields.is_in
    spkt,             \* the SETUP packet the engine is delivering
    spos,             \* number of its bytes already consumed
    npkts,            \* number of SETUP packets drawn so far
    in_ev_pending,    \* usb.in_ev_pending.w
    out_ev_pending,   \* usb.out_ev_pending.w
    out_epno,         \* usb.out_status.fields.epno
    out_pend,         \* usb.out_status.fields.pend
    out_fifo,         \* bytes the engine holds for usb.out_data
    out_host,         \* the OUT packet the host wrote last to endpoint 2
    in_log            \* bytes written to usb.in_data since the FSM last sat in IDLE

tablevars == <<cfg, contents, offsets, lengths, nadd, pending>>
regvars == <<fsm, setup_index, usbPacket, wLength, new_address, bytes_addr,
             bytes_remaining, delayed_re, dat_r, address>>
envvars == <<setup_have, setup_is_in, spkt, spos, npkts, in_ev_pending,
             out_ev_pending, out_epno, out_pend, out_fifo, out_host>>
vars == <<tablevars, regvars, envvars, in_log>>

----------------------------------------------------------------------------
(* Widths of the registers, as moduli.                                     *)
ResponseAddrMod == 512
ResponseLenMod == 64
BytesRemainingMod == 64
BytesAddrMod == 512
NewAddressMod == 128
SetupIndexMod == 16
ByteMod == 256
MaxUsbStrChars == 126
SetupDone == 10
SetAddressRequest == 5
GetDescriptorRequest == 32774
EchoEndpoint == 2

Min(a, b) == IF a < b THEN a ELSE b

(* The concatenation of a sequence of sequences, by halves.                *)
RECURSIVE Flatten(_)
Flatten(ss) ==
    IF ss = <<>> THEN <<>>
    ELSE IF Len(ss) = 1 THEN ss[1]
    ELSE LET h == Len(ss) \div 2
         IN Flatten(SubSeq(ss, 1, h)) \o Flatten(SubSeq(ss, h + 1, Len(ss)))

----------------------------------------------------------------------------
(* Construction: strings and descriptors.                                  *)

(* bytes(s, 'utf_16_le') for one code point: two bytes in the basic plane, *)
(* a surrogate pair (four bytes) above it.                                 *)
Utf16leChar(cp) ==
    IF cp < 65536
    THEN <<cp % 256, cp \div 256>>
    ELSE LET v == cp - 65536
             hi == 55296 + (v \div 1024)
             lo == 56320 + (v % 1024)
         IN <<hi % 256, hi \div 256, lo % 256, lo \div 256>>

Utf16le(s) == Flatten([i \in 1..Len(s) |-> Utf16leChar(s[i])])

(* make_usbstr: the header counts characters, the body is the encoding.    *)
make_usbstr(s) == <<(Len(s) * 2) + 2, 3>> \o Utf16le(s)

ConfigDescriptor ==
    <<9, 2, 62, 0, 2, 1, 0, 128, 50,
      9, 4, 0, 0, 1, 2, 2, 0, 0,
      5, 36, 0, 16, 1,
      4, 36, 2, 2,
      5, 36, 6, 0, 1,
      7, 5, 129, 3, 8, 0, 64,
      9, 4, 1, 0, 2, 10, 0, 0, 0,
      7, 5, 2, 2, 64, 0, 0,
      7, 5, 130, 2, 64, 0, 0>>

DeviceDescriptor(vid, pid) ==
    <<18, 1, 0, 2, 2, 0, 0, 64,
      vid % 256, (vid \div 256) % 256,
      pid % 256, (pid \div 256) % 256,
      1, 1, 1, 2, 0, 1>>

String0Descriptor == <<4, 3, 9, 4>>

BosDescriptor ==
    <<5, 15, 29, 0, 1, 24, 16, 5,
      0, 56, 182, 8, 52, 169, 9, 160,
      71, 139, 253, 160, 118, 136, 21, 182,
      101, 0, 1, 2, 1>>

MsOsStringDescriptor ==
    <<18, 3, 77, 83, 70, 84, 49, 48,
      48, 126, 0, 0, 0, 0, 0, 0,
      0, 0>>

usb_ms_compat_id_descriptor ==
    <<40, 0, 0, 0, 0, 1, 4, 0,
      1, 0, 0, 0, 0, 0, 0, 0,
      0, 1, 87, 73, 78, 85, 83, 66,
      0, 0, 0, 0, 0, 0, 0, 0,
      0, 0, 0, 0, 0, 0, 0, 0>>

(* The mem.add calls of the constructor, in the order they are made: the   *)
(* descriptors dictionary in insertion order under request 0x8006, then    *)
(* the three explicit calls.                                               *)
Entries(c) ==
    << [key |-> <<GetDescriptorRequest, 2>>,   mem |-> ConfigDescriptor],
       [key |-> <<GetDescriptorRequest, 1>>,   mem |-> DeviceDescriptor(c.vid, c.pid)],
       [key |-> <<GetDescriptorRequest, 3>>,   mem |-> String0Descriptor],
       [key |-> <<GetDescriptorRequest, 259>>, mem |-> make_usbstr(c.manufacturer)],
       [key |-> <<GetDescriptorRequest, 515>>, mem |-> make_usbstr(c.product)],
       [key |-> <<GetDescriptorRequest, 15>>,  mem |-> BosDescriptor],
       [key |-> <<GetDescriptorRequest, 60931>>, mem |-> MsOsStringDescriptor],
       [key |-> <<49278, 0>>, mem |-> usb_ms_compat_id_descriptor],
       [key |-> <<32768, 0>>, mem |-> <<0, 0>>],
       [key |-> <<9, 256>>,   mem |-> <<>>] >>

(* MemoryContents.__init__                                                 *)
MemoryContentsInit ==
    /\ contents = <<0>>
    /\ offsets = [k \in {} |-> 0]
    /\ lengths = [k \in {} |-> 0]

(* add with the offset taken after the bytes were appended.                *)
add_OffsetAfterAppend(key, mem) ==
    /\ offsets' = [k \in (DOMAIN offsets) \cup {key} |->
                      IF k = key THEN Len(contents) + Len(mem) ELSE offsets[k]]
    /\ lengths' = [k \in (DOMAIN lengths) \cup {key} |->
                      IF k = key THEN Len(mem) ELSE lengths[k]]
    /\ contents' = contents \o mem

(* MemoryContents.add(wRequestAndType, wValue, mem)                        *)
add(key, mem) ==
    /\ offsets' = [k \in (DOMAIN offsets) \cup {key} |->
                      IF k = key THEN Len(contents) ELSE offsets[k]]
    /\ lengths' = [k \in (DOMAIN lengths) \cup {key} |->
                      IF k = key THEN Len(mem) ELSE lengths[k]]
    /\ contents' = contents \o mem

(* Elaboration is over once every mem.add call has been made.              *)
Built == pending = <<>>

----------------------------------------------------------------------------
(* Signals driven combinationally from the registers.                      *)

wRequestAndType == (usbPacket[1] * 256) + usbPacket[2]
wValue == (usbPacket[3] * 256) + usbPacket[4]
Key == <<wRequestAndType, wValue>>

(* Case(usbPacket, cases): a constant is cut to the width of the signal it *)
(* is assigned to; without a match both signals keep their reset value.    *)
ResolveLen(k) == IF k \in DOMAIN lengths THEN lengths[k] % ResponseLenMod ELSE 0
ResolveAddr(k) == IF k \in DOMAIN offsets THEN offsets[k] % ResponseAddrMod ELSE 0
response_len == ResolveLen(Key)
response_addr == ResolveAddr(Key)

(* Cat(usb.setup_data.fields.data, usbPacket[0:24])                        *)
ShiftIn(p, b) == <<p[2], p[3], p[4], b>>

(* wValue[8:15]                                                            *)
AddressOf(v) == (v \div 256) % NewAddressMod

setup_data == IF spos < Len(spkt.bytes) THEN spkt.bytes[spos + 1] ELSE 0

(* A read of out_buffer past its depth, or of an empty FIFO, returns an    *)
(* unspecified byte.                                                       *)
UndefBytes == {0, 255}
ReadPort(a) == IF a < Len(contents) THEN {contents[a + 1]} ELSE UndefBytes
out_data(u) == IF out_fifo # <<>> THEN Head(out_fifo) ELSE u

(* Strobes of the current cycle.                                           *)
\* The address written as soon as it is latched, not on the return to IDLE.
address_re_Immediate == fsm \in {"IDLE", "WAIT-TRANSACTION"}
address_re == fsm = "IDLE"
\* The SETUP FIFO acknowledged whenever a byte is on offer.
setup_data_we_AnyState == setup_have
setup_data_we == fsm = "SETUP" /\ setup_have
\* The write enable raised with the address, not one cycle after it.
in_data_re_Undelayed == (fsm = "SETUP-IN" /\ bytes_remaining # 0) \/ fsm = "ECHO"
in_data_re == (fsm = "SETUP-IN" /\ delayed_re) \/ fsm = "ECHO"
in_data_dat_w(u) == IF fsm = "ECHO" THEN out_data(u) ELSE dat_r
out_data_we == fsm \in {"WAIT-TRANSACTION", "ECHO"}
in_ev_pending_re ==
    \/ fsm = "WAIT-TRANSACTION" /\ in_ev_pending
    \/ fsm = "WAIT-OUT" /\ in_ev_pending /\ out_ev_pending
out_ev_pending_re ==
    \/ fsm = "WAIT" /\ (setup_have \/ out_ev_pending)
    \/ fsm = "WAIT-OUT" /\ in_ev_pending /\ out_ev_pending
in_ctrl_re == fsm \in {"WAIT", "ECHO"}
in_ctrl_epno == IF fsm = "ECHO" THEN EchoEndpoint ELSE 0

----------------------------------------------------------------------------
(* The FSM: each act gives the values the registers take at the next clock *)
(* edge when the machine is in that state.                                 *)

Hold == [fsm |-> fsm, setup_index |-> setup_index, usbPacket |-> usbPacket,
         wLength |-> wLength, new_address |-> new_address,
         bytes_addr |-> bytes_addr, bytes_remaining |-> bytes_remaining,
         delayed_re |-> delayed_re]

\* IDLE clearing the latch once it has been written to the engine.
ActIdle_ClearLatch == [Hold EXCEPT !.fsm = "WAIT", !.new_address = 0]
ActIdle == [Hold EXCEPT !.fsm = "WAIT"]

(* The two If statements of WAIT are separate: when both hold, the later   *)
(* assignment to the next state stands.                                    *)
ActWait ==
    LET s1 == IF setup_have
              THEN [Hold EXCEPT !.fsm = "SETUP", !.setup_index = 0]
              ELSE Hold
    IN IF out_ev_pending /\ out_epno = EchoEndpoint /\ out_pend
       THEN [s1 EXCEPT !.fsm = "ECHO"]
       ELSE s1

\* The assembler with the commented-out case 7 active: byte 7 overwrites
\* the length register.
Assemble_HighByte ==
    IF ~setup_have THEN Hold
    ELSE LET h == [Hold EXCEPT !.setup_index = (setup_index + 1) % SetupIndexMod]
         IN CASE setup_index \in 0..3 ->
                   [h EXCEPT !.usbPacket = ShiftIn(usbPacket, setup_data)]
              [] setup_index \in {6, 7} -> [h EXCEPT !.wLength = setup_data]
              [] OTHER -> h

(* Case(setup_index, ...) under If(usb.setup_status.fields.have)           *)
Assemble ==
    IF ~setup_have THEN Hold
    ELSE LET h == [Hold EXCEPT !.setup_index = (setup_index + 1) % SetupIndexMod]
         IN CASE setup_index \in 0..3 ->
                   [h EXCEPT !.usbPacket = ShiftIn(usbPacket, setup_data)]
              [] setup_index = 6 -> [h EXCEPT !.wLength = setup_data]
              [] OTHER -> h

(* SETUP without the NextState("IDLE") default: an unanswered request     *)
(* waits for a status stage.                                               *)
ActSetup_NoIdleDefault ==
    LET a == Assemble
    IN IF setup_index # SetupDone THEN a
       ELSE IF setup_is_in /\ response_len > 0 /\ wRequestAndType # SetAddressRequest
       THEN [a EXCEPT !.fsm = "SETUP-IN",
                      !.bytes_remaining = IF response_len > wLength
                                          THEN wLength % BytesRemainingMod
                                          ELSE response_len,
                      !.bytes_addr = response_addr]
       ELSE [a EXCEPT !.new_address = IF wRequestAndType = SetAddressRequest
                                       THEN AddressOf(wValue) ELSE new_address,
                      !.fsm = "WAIT-TRANSACTION"]

\* SETUP acting on the request after the eight data bytes, before the two
\* CRC bytes were taken.
ActSetup_EightBytes ==
    LET a == Assemble
    IN IF setup_index # SetupDone - 2 THEN a
       ELSE IF wRequestAndType = SetAddressRequest
       THEN [a EXCEPT !.new_address = AddressOf(wValue),
                      !.fsm = "WAIT-TRANSACTION"]
       ELSE IF setup_is_in /\ response_len > 0
       THEN [a EXCEPT !.fsm = "SETUP-IN",
                      !.bytes_remaining = IF response_len > wLength
                                          THEN wLength % BytesRemainingMod
                                          ELSE response_len,
                      !.bytes_addr = response_addr]
       ELSE [a EXCEPT !.fsm = "IDLE"]

(* If(setup_index == 0xA, ...)                                             *)
ActSetup ==
    LET a == Assemble
    IN IF setup_index # SetupDone THEN a
       ELSE IF wRequestAndType = SetAddressRequest
       THEN [a EXCEPT !.new_address = AddressOf(wValue),
                      !.fsm = "WAIT-TRANSACTION"]
       ELSE IF setup_is_in /\ response_len > 0
       THEN [a EXCEPT !.fsm = "SETUP-IN",
                      !.bytes_remaining = IF response_len > wLength
                                          THEN wLength % BytesRemainingMod
                                          ELSE response_len,
                      !.bytes_addr = response_addr]
       ELSE [a EXCEPT !.fsm = "IDLE"]

\* SETUP-IN testing the IN event before the remaining count.
ActSetupIn_EventFirst ==
    IF in_ev_pending
    THEN [Hold EXCEPT !.delayed_re = FALSE, !.fsm = "WAIT-TRANSACTION"]
    ELSE IF bytes_remaining # 0
    THEN [Hold EXCEPT !.delayed_re = TRUE,
                      !.bytes_addr = (bytes_addr + 1) % BytesAddrMod,
                      !.bytes_remaining = bytes_remaining - 1]
    ELSE [Hold EXCEPT !.delayed_re = FALSE]

ActSetupIn ==
    IF bytes_remaining # 0
    THEN [Hold EXCEPT !.delayed_re = TRUE,
                      !.bytes_addr = (bytes_addr + 1) % BytesAddrMod,
                      !.bytes_remaining = bytes_remaining - 1]
    ELSE IF in_ev_pending
    THEN [Hold EXCEPT !.delayed_re = FALSE, !.fsm = "WAIT-TRANSACTION"]
    ELSE [Hold EXCEPT !.delayed_re = FALSE]

\* WAIT-TRANSACTION with a timeout: left without the IN event.
ActWaitTransaction_Timeout == [Hold EXCEPT !.fsm = "IDLE"]
\* WAIT-TRANSACTION released by either event, as WAIT-OUT's test would be
\* with an "or".
ActWaitTransaction_AnyEvent ==
    IF in_ev_pending \/ out_ev_pending THEN [Hold EXCEPT !.fsm = "IDLE"] ELSE Hold
ActWaitTransaction ==
    IF in_ev_pending THEN [Hold EXCEPT !.fsm = "IDLE"] ELSE Hold

ActWaitOut ==
    IF in_ev_pending /\ out_ev_pending THEN [Hold EXCEPT !.fsm = "IDLE"] ELSE Hold

\* ECHO handing over to WAIT-OUT, the state no act names as a target.
ActEcho_ToWaitOut == [Hold EXCEPT !.fsm = "WAIT-OUT"]
ActEcho == [Hold EXCEPT !.fsm = "WAIT-TRANSACTION"]

(* Case(self.state, cases) of the lowered FSM                              *)
NextRegs ==
    CASE fsm = "IDLE" -> ActIdle
      [] fsm = "WAIT" -> ActWait
      [] fsm = "SETUP" -> ActSetup
      [] fsm = "SETUP-IN" -> ActSetupIn
      [] fsm = "WAIT-TRANSACTION" -> ActWaitTransaction
      [] fsm = "WAIT-OUT" -> ActWaitOut
      [] fsm = "ECHO" -> ActEcho

----------------------------------------------------------------------------
(* Inputs the model draws.                                                 *)

Rep(c, n) == [i \in 1..n |-> c]

DefaultManufacturer == <<71, 115, 68>>
DefaultProduct == <<79, 114, 97, 110, 103, 101, 67, 114, 97, 98, 32, 67, 68, 67>>
DefaultConfig == [vid |-> 4617, pid |-> 23538,
                  product |-> DefaultProduct, manufacturer |-> DefaultManufacturer]

(* Constructor arguments: the defaults; another vendor with a manufacturer *)
(* string whose descriptor takes 64 bytes and a product string with a      *)
(* character outside the basic plane; both strings of the greatest length  *)
(* make_usbstr accepts.                                                    *)
Configs ==
    { DefaultConfig,
      [vid |-> 7504, pid |-> 24880,
       product |-> <<79, 128512>>, manufacturer |-> Rep(65, 31)] }

(* A SETUP packet as the engine hands it over: the eight bytes of the      *)
(* request and the two bytes of its CRC.  wlen is the host's 16-bit        *)
(* wLength, sent low byte first.                                           *)
Packet(b0, b1, b2, b3, wlen, isin) ==
    [bytes |-> <<b0, b1, b2, b3, 0, 0, wlen % ByteMod, (wlen \div ByteMod) % ByteMod, 0, 0>>,
     is_in |-> isin]

(* No packet drawn yet.                                                    *)
NoPacket == [bytes |-> <<>>, is_in |-> FALSE]

SetupPackets ==
    { Packet(128, 6, 0, 1, 18, TRUE),     \* GET_DESCRIPTOR device
      Packet(128, 6, 0, 1, 8, TRUE),      \* ... first 8 bytes
      Packet(128, 6, 0, 1, 0, TRUE),      \* ... wLength 0
      Packet(128, 6, 0, 2, 256, TRUE),    \* GET_DESCRIPTOR configuration, wLength 0x0100
      Packet(128, 6, 1, 3, 255, TRUE),    \* string 1, manufacturer
      Packet(128, 0, 0, 0, 2, TRUE),      \* GET_STATUS
      Packet(0, 5, 42, 0, 0, FALSE),      \* SET_ADDRESS 42
      Packet(128, 6, 0, 6, 10, TRUE) }    \* not in the table

OutPackets == { <<65>> }

(* The echo scenario: OUT packets of one byte and of the bulk endpoint's   *)
(* wMaxPacketSize, and one control request.                                *)
MaxPacketSize == 64
EchoPackets == { <<65>>, [i \in 1..MaxPacketSize |-> 64 + i] }
EchoSetups == { Packet(128, 0, 0, 0, 2, TRUE) }

(* The assembler scenario: requests that differ only in the bytes the     *)
(* assembler discards (wIndex, the high byte of wLength, the CRC), after   *)
(* any earlier request.                                                    *)
AssemblePackets ==
    { Packet(128, 6, 0, 1, 18, TRUE),
      [bytes |-> <<128, 6, 0, 1, 9, 4, 18, 1, 77, 88>>, is_in |-> TRUE],
      Packet(0, 5, 42, 0, 0, FALSE),
      [bytes |-> <<0, 5, 42, 0, 3, 0, 0, 2, 17, 34>>, is_in |-> FALSE],
      Packet(128, 6, 0, 6, 10, TRUE) }

(* A manufacturer string of 32 characters: a descriptor of 66 bytes.       *)
LongConfig ==
    [vid |-> 4617, pid |-> 23538,
     product |-> DefaultProduct, manufacturer |-> Rep(65, 32)]

LongSetups ==
    { Packet(128, 6, 1, 3, 255, TRUE),    \* string 1, manufacturer
      Packet(128, 6, 1, 3, 4, TRUE),      \* ... first 4 bytes
      Packet(128, 6, 2, 3, 255, TRUE) }   \* string 2, product

(* The sticky-flag scenario: SET_CONFIGURATION 1 (no data stage, answered  *)
(* by SETUP -> IDLE), SET_ADDRESS and a descriptor request.                *)
StickySetups ==
    { Packet(0, 9, 1, 0, 0, FALSE),
      Packet(0, 5, 42, 0, 0, FALSE),
      Packet(128, 6, 0, 1, 18, TRUE) }

(* The liveness scenario: a descriptor request, SET_ADDRESS and a request  *)
(* that is not in the table, in any number and order.                      *)
LiveSetups ==
    { Packet(128, 6, 0, 3, 255, TRUE),
      Packet(0, 5, 42, 0, 0, FALSE),
      Packet(128, 6, 0, 6, 10, TRUE) }

----------------------------------------------------------------------------
(* Init: the constructor has run up to mem = MemoryContents(); the         *)
(* hardware is in reset.                                                   *)

InitRegs ==
    /\ fsm = "IDLE"
    /\ setup_index = 0
    /\ usbPacket = <<0, 0, 0, 0>>
    /\ wLength = 0
    /\ new_address = 0
    /\ bytes_addr = 0
    /\ bytes_remaining = 0
    /\ delayed_re = FALSE
    /\ dat_r \in UndefBytes
    /\ address = 0

InitEnv ==
    /\ setup_have = FALSE
    /\ setup_is_in = FALSE
    /\ spkt = NoPacket
    /\ spos = 0
    /\ npkts = 0
    /\ in_ev_pending = FALSE
    /\ out_ev_pending = FALSE
    /\ out_epno = 0
    /\ out_pend = FALSE
    /\ out_fifo = <<>>
    /\ out_host = <<>>
    /\ in_log = <<>>

InitWith(CS) ==
    /\ cfg \in CS
    /\ Len(cfg.product) <= MaxUsbStrChars
    /\ Len(cfg.manufacturer) <= MaxUsbStrChars
    /\ MemoryContentsInit
    /\ nadd = 0
    /\ pending = Entries(cfg)
    /\ InitRegs
    /\ InitEnv

Init == InitWith(Configs)

----------------------------------------------------------------------------
(* The number of SETUP packets of a capped run.                            *)
MaxSetups == 2

(* Elaboration: the next mem.add call.                                     *)
MemAdd ==
    /\ pending # <<>>
    /\ LET e == Head(pending) IN add(e.key, e.mem)
    /\ pending' = Tail(pending)
    /\ nadd' = nadd + 1
    /\ UNCHANGED <<cfg, regvars, envvars, in_log>>

(* The engine's SETUP FIFO: a byte on offer stays until it is taken; the   *)
(* next byte of the packet, or the first byte of the next packet, may      *)
(* come at any later cycle.  Which packet a first byte belongs to is       *)
(* drawn in the first cycle that offers it to the SETUP state, the only    *)
(* state that reads setup_data and is_in.  A capped run has at most        *)
(* MaxSetups packets.                                                      *)
EnvSetup(SP, capped) ==
    LET pos1 == IF setup_data_we THEN spos + 1 ELSE spos
        done == pos1 = Len(spkt.bytes)
        more == ~capped \/ npkts < MaxSetups
    IN /\ setup_have' \in IF setup_have /\ ~setup_data_we THEN {TRUE}
                          ELSE IF done /\ ~more THEN {FALSE}
                          ELSE BOOLEAN
       /\ IF setup_have' /\ done /\ fsm' = "SETUP"
          THEN /\ spkt' \in SP
               /\ spos' = 0
               /\ setup_is_in' = spkt'.is_in
               /\ npkts' = IF capped THEN npkts + 1 ELSE npkts
          ELSE /\ spos' = pos1
               /\ UNCHANGED <<spkt, setup_is_in, npkts>>

(* The engine's event flags and OUT FIFO.  A flag is followed in the       *)
(* cycles of the states whose act names it, and the OUT event also in      *)
(* WAIT-TRANSACTION, which drains OUT data; in the other cycles nothing    *)
(* reads it and it is left low.  out_data.we takes one byte off the FIFO;  *)
(* a packet for endpoint 2 arrives with its event, while the machine polls *)
(* in WAIT and the FIFO is empty.  out_host keeps the packet until the     *)
(* machine has been back in IDLE.                                          *)
InEventFree ==
    in_ev_pending' \in IF fsm' \in {"SETUP-IN", "WAIT-TRANSACTION", "WAIT-OUT"}
                       THEN BOOLEAN ELSE {FALSE}

EnvOut(OP) ==
    LET popped == IF out_data_we /\ out_fifo # <<>> THEN Tail(out_fifo) ELSE out_fifo IN
    /\ out_ev_pending' \in IF fsm' \in {"WAIT", "WAIT-TRANSACTION", "WAIT-OUT"}
                           THEN BOOLEAN ELSE {FALSE}
    /\ out_epno' \in IF fsm' = "WAIT" /\ out_ev_pending' THEN {0, EchoEndpoint} ELSE {0}
    /\ out_pend' \in IF fsm' = "WAIT" /\ out_ev_pending' THEN BOOLEAN ELSE {FALSE}
    /\ IF fsm' = "WAIT" /\ out_ev_pending' /\ out_epno' = EchoEndpoint /\ out_pend'
          /\ popped = <<>>
       THEN out_fifo' \in OP /\ out_host' = out_fifo'
       ELSE out_fifo' = popped /\ out_host' = IF fsm = "IDLE" THEN <<>> ELSE out_host

EnvEvents(OP) == InEventFree /\ EnvOut(OP)

(* The IN event as a sticky flag: once raised it stays until a cycle that  *)
(* acknowledges it.  The engine raises it when the host has taken an IN    *)
(* packet: in WAIT once a request has been assembled (WAIT arms IN        *)
(* endpoint 0 in every cycle, which answers the zero-length status stage   *)
(* of that request), and in SETUP-IN and WAIT-TRANSACTION.                 *)
InEventSticky ==
    in_ev_pending' \in IF in_ev_pending /\ ~in_ev_pending_re THEN {TRUE}
                       ELSE IF \/ fsm' \in {"SETUP-IN", "WAIT-TRANSACTION"}
                               \/ (fsm' = "WAIT" /\ setup_index' >= SetupDone)
                       THEN BOOLEAN ELSE {FALSE}

(* One clock edge: the registers, the read port, the address CSR and the  *)
(* SETUP FIFO.                                                             *)
ClockEdge(SP, capped) ==
    /\ Built
    /\ LET n == NextRegs IN
         /\ fsm' = n.fsm
         /\ setup_index' = n.setup_index
         /\ usbPacket' = n.usbPacket
         /\ wLength' = n.wLength
         /\ new_address' = n.new_address
         /\ bytes_addr' = n.bytes_addr
         /\ bytes_remaining' = n.bytes_remaining
         /\ delayed_re' = n.delayed_re
    /\ dat_r' \in ReadPort(bytes_addr)
    /\ address' = IF address_re THEN new_address ELSE address
    /\ \E u \in UndefBytes :
         in_log' = IF fsm = "IDLE" THEN <<>>
                   ELSE IF in_data_re THEN Append(in_log, in_data_dat_w(u))
                   ELSE in_log
    /\ EnvSetup(SP, capped)
    /\ UNCHANGED tablevars

Clock(SP, OP, capped) == ClockEdge(SP, capped) /\ EnvEvents(OP)

ClockSticky(SP, OP) == ClockEdge(SP, TRUE) /\ InEventSticky /\ EnvOut(OP)

Next == MemAdd \/ Clock(SetupPackets, OutPackets, TRUE)

Spec == Init /\ [][Next]_vars

NextEcho == MemAdd \/ Clock(EchoSetups, EchoPackets, TRUE)

SpecEcho == InitWith({DefaultConfig}) /\ [][NextEcho]_vars

(* The clock runs; the engine eventually offers the next SETUP byte and    *)
(* eventually raises the IN event.                                         *)
ClockLive == Clock(LiveSetups, OutPackets, FALSE)
NextLive == MemAdd \/ ClockLive

SpecLive ==
    /\ InitWith({DefaultConfig})
    /\ [][NextLive]_vars
    /\ WF_vars(NextLive)
    /\ WF_vars(ClockLive /\ setup_have')
    /\ WF_vars(ClockLive /\ in_ev_pending')

NextAssemble == MemAdd \/ Clock(AssemblePackets, OutPackets, TRUE)

SpecAssemble == InitWith({DefaultConfig}) /\ [][NextAssemble]_vars

NextLong == MemAdd \/ Clock(LongSetups, OutPackets, TRUE)

SpecLong == InitWith({LongConfig}) /\ [][NextLong]_vars

NextSticky == MemAdd \/ ClockSticky(StickySetups, OutPackets)

SpecSticky == InitWith({DefaultConfig}) /\ [][NextSticky]_vars

----------------------------------------------------------------------------
(* Properties.                                                             *)

RECURSIVE SumLen(_, _)
SumLen(E, n) == IF n = 0 THEN 0 ELSE Len(E[n].mem) + SumLen(E, n - 1)

DeviceKey == <<GetDescriptorRequest, 1>>

(* C7: the blob starts with a sentinel byte 0 that no entry covers; the    *)
(* entries added so far have offset = length of the blob when they were    *)
(* added (1 + the lengths of the entries before them) and length = their   *)
(* byte count, so they are contiguous, do not overlap, and the blob holds  *)
(* their bytes at [offset, offset + length); the table is a function of    *)
(* the constructor arguments; with vid 0x1209 and pid 0x5bf2 the device    *)
(* descriptor has 18 bytes, bytes 8..11 being 0x09, 0x12, 0xf2, 0x5b.      *)
C7_TableConstruction ==
    LET E == Entries(cfg) IN
    /\ Len(contents) = 1 + SumLen(E, nadd)
    /\ contents[1] = 0
    /\ DOMAIN offsets = {E[i].key : i \in 1..nadd}
    /\ DOMAIN lengths = DOMAIN offsets
    /\ \A i \in 1..nadd :
          LET o == offsets[E[i].key]
              l == lengths[E[i].key]
          IN /\ o = 1 + SumLen(E, i - 1)
             /\ l = Len(E[i].mem)
             /\ SubSeq(contents, o + 1, o + l) = E[i].mem
    /\ (cfg.vid = 4617 /\ cfg.pid = 23538 /\ DeviceKey \in DOMAIN offsets) =>
          LET o == offsets[DeviceKey] IN
          /\ lengths[DeviceKey] = 18
          /\ <<contents[o + 9], contents[o + 10]>> = <<9, 18>>
          /\ <<contents[o + 11], contents[o + 12]>> = <<242, 91>>

C7_Witness == Built /\ cfg = DefaultConfig /\ fsm = "WAIT"

(* C6: for every constructor input the resolver presents, for every key of *)
(* the table, the entry's true length and true offset.                     *)
C6_ResolverPresentsTrueLengths ==
    \A k \in DOMAIN lengths :
        ResolveLen(k) = lengths[k] /\ ResolveAddr(k) = offsets[k]

(* C1 as claimed: when a request whose key is in the table completes       *)
(* assembly with IN direction, the bytes written to in_data between        *)
(* entering SETUP-IN and leaving it are the first min(stored length,       *)
(* wLength) stored bytes of the entry, in order: a data stage is started   *)
(* whenever there is a byte to send, what has been written is at every     *)
(* moment a prefix of those bytes, and on leaving it is all of them.       *)
Expected ==
    IF Key \in DOMAIN offsets
    THEN SubSeq(contents, offsets[Key] + 1, offsets[Key] + Min(lengths[Key], wLength))
    ELSE <<>>

IsPrefix(p, q) == Len(p) <= Len(q) /\ p = SubSeq(q, 1, Len(p))

C1_StreamsStoredBytes ==
    [][ /\ ((fsm = "SETUP" /\ setup_index = SetupDone /\ Key \in DOMAIN offsets
              /\ setup_is_in /\ Expected # <<>>) => fsm' = "SETUP-IN")
        /\ (fsm = "SETUP-IN" => IsPrefix(in_log', Expected))
        /\ ((fsm = "SETUP-IN" /\ fsm' # "SETUP-IN") => in_log' = Expected)
      ]_vars

(* C2 as claimed: the address write strobe is high in IDLE only, the       *)
(* address register changes only at a clock edge that enters IDLE, and in  *)
(* every IDLE cycle it already equals the latched address.                 *)
C2_AddressFromIdleEntry ==
    /\ [](address_re => fsm = "IDLE")
    /\ [](fsm = "IDLE" => address = new_address)
    /\ [][address' # address => fsm' = "IDLE"]_vars

(* C2: when a request with key 0x0005 completes assembly, the 7 low bits   *)
(* of the host's wValue (its low byte is the third byte assembled) are     *)
(* latched and the machine goes to WAIT-TRANSACTION; the address register  *)
(* keeps its value in every cycle outside IDLE, the IDLE cycle included    *)
(* up to its end, and the latch keeps its value throughout                 *)
(* WAIT-TRANSACTION; the clock edge that ends the IDLE cycle writes the    *)
(* latch to the address register, which holds it from the following WAIT   *)
(* cycle on; the address write strobe is high in IDLE only.                *)
C2_AddressAppliedInIdle ==
    /\ [](address_re => fsm = "IDLE")
    /\ [](fsm \in {"WAIT", "ECHO", "SETUP-IN"} => address = new_address)
    /\ [][ /\ ((fsm = "SETUP" /\ setup_index = SetupDone
                 /\ wRequestAndType = SetAddressRequest)
               => (new_address' = usbPacket[3] % NewAddressMod /\ fsm' = "WAIT-TRANSACTION"))
            /\ (fsm = "WAIT-TRANSACTION" => new_address' = new_address)
            /\ (fsm # "IDLE" => address' = address)
            /\ (fsm = "IDLE" => address' = new_address)
          ]_vars

C2_Witness == fsm = "WAIT" /\ address = 42 /\ wRequestAndType = SetAddressRequest

(* C3: when a request whose 32-bit word is no key of the table and whose   *)
(* key is not 0x0005 completes assembly (index 10), the resolver presents  *)
(* length 0, no byte is written to in_data, and the next state is IDLE.    *)
C3_UnmatchedGoesIdle ==
    [][ (fsm = "SETUP" /\ setup_index = SetupDone /\ Key \notin DOMAIN lengths
         /\ wRequestAndType # SetAddressRequest)
        => (/\ response_len = 0
            /\ ~in_data_re
            /\ in_log = <<>> /\ in_log' = <<>>
            /\ fsm' = "IDLE")
      ]_vars

C3_Witness ==
    /\ fsm = "IDLE" /\ setup_index >= SetupDone
    /\ usbPacket = <<128, 6, 0, 6>> /\ Key \notin DOMAIN lengths

(* C5 as claimed: for a table entry of nonzero stored length that the      *)
(* resolver presents in full, and a host wLength (16 bits, bytes 6 and 7   *)
(* of the packet) not below the stored length, the data stage streams      *)
(* stored-length bytes.                                                    *)
HostWLength == spkt.bytes[7] + (256 * spkt.bytes[8])

C5_OverLengthStreamsAll ==
    [][ (/\ fsm = "SETUP" /\ setup_index = SetupDone
         /\ spkt # NoPacket /\ spos = Len(spkt.bytes)
         /\ usbPacket = SubSeq(spkt.bytes, 1, 4)
         /\ setup_is_in
         /\ Key \in DOMAIN lengths /\ lengths[Key] > 0
         /\ response_len = lengths[Key]
         /\ HostWLength >= lengths[Key])
        => (fsm' = "SETUP-IN" /\ bytes_remaining' = lengths[Key])
      ]_vars

(* C9 as claimed: in WAIT, whenever a SETUP packet is available the next   *)
(* state is SETUP with the index reset to 0, whatever the OUT event; ECHO  *)
(* is entered only when no SETUP is available.                             *)
C9_SetupBeforeEcho ==
    [][ fsm = "WAIT" =>
          /\ (setup_have => (fsm' = "SETUP" /\ setup_index' = 0))
          /\ (fsm' = "ECHO" => ~setup_have)
      ]_vars

(* C10: a cycle in SETUP-IN has the in_data write strobe high exactly when *)
(* the cycle before it was in SETUP-IN with bytes remaining; the byte      *)
(* written is the blob byte at the address the cursor drove in that        *)
(* earlier cycle, and the cursor has moved on by then; the strobe is low   *)
(* in the first cycle of SETUP-IN.                                         *)
C10_DelayedReadEnable ==
    [][ /\ ((fsm = "SETUP-IN" /\ bytes_remaining # 0)
               <=> (fsm' = "SETUP-IN" /\ in_data_re'))
        /\ ((fsm = "SETUP-IN" /\ bytes_remaining # 0)
               => (/\ bytes_addr < Len(contents)
                   /\ dat_r' = contents[bytes_addr + 1]
                   /\ bytes_addr' = bytes_addr + 1))
        /\ ((fsm # "SETUP-IN" /\ fsm' = "SETUP-IN") => ~in_data_re')
      ]_vars

C10_Witness == fsm = "SETUP-IN" /\ in_data_re /\ Len(in_log) >= 1 /\ bytes_remaining # 0

(* C4 as claimed: when the host has written N bytes to OUT endpoint 2, the *)
(* bytes written to in_data by the time the machine is back in IDLE are    *)
(* those N bytes, in order.                                                *)
C4_EchoReturnsAllBytes ==
    (fsm = "IDLE" /\ out_host # <<>>) => in_log = out_host

(* C8: with the clock running, SETUP bytes eventually on offer and the IN  *)
(* event eventually raised, every cycle in SETUP or ECHO is followed by a  *)
(* cycle in IDLE; and there is no timeout: SETUP is left only at index 10, *)
(* SETUP-IN and WAIT-TRANSACTION only in a cycle with the IN event         *)
(* pending.                                                                *)
C8_ReturnsToIdle ==
    /\ (fsm \in {"SETUP", "ECHO"}) ~> (fsm = "IDLE")
    /\ [][ /\ ((fsm = "SETUP" /\ setup_index # SetupDone) => fsm' = "SETUP")
            /\ ((fsm = "SETUP-IN" /\ ~in_ev_pending) => fsm' = "SETUP-IN")
            /\ ((fsm = "WAIT-TRANSACTION" /\ ~in_ev_pending) => fsm' = "WAIT-TRANSACTION")
          ]_vars

C8_Witness == fsm = "IDLE" /\ setup_index >= SetupDone /\ in_log # <<>>

(* C11: when the ten bytes b0..b9 of a SETUP packet have been consumed at  *)
(* index 0..9 of one stay in SETUP, the request key is b0*256 + b1, the    *)
(* value word b2*256 + b3 and the length b6, whatever the registers held   *)
(* before; the step taken at index 10 (next state, cursor, address latch,  *)
(* resolver outputs) is a function of b0..b3, b6 and the direction alone,  *)
(* so packets that differ in b4, b5, b7, b8, b9 are served alike.          *)
Consumed == fsm = "SETUP" /\ setup_index = SetupDone
            /\ spkt # NoPacket /\ spos = Len(spkt.bytes)

Served(k, len, isin) ==
    IF k[1] = SetAddressRequest
    THEN <<"WAIT-TRANSACTION", bytes_addr, bytes_remaining, (k[2] \div 256) % NewAddressMod>>
    ELSE IF isin /\ ResolveLen(k) > 0
    THEN <<"SETUP-IN", ResolveAddr(k), Min(ResolveLen(k), len), new_address>>
    ELSE <<"IDLE", bytes_addr, bytes_remaining, new_address>>

C11_AssemblerResult ==
    [][ Consumed =>
          LET b == spkt.bytes
              k == <<(b[1] * 256) + b[2], (b[3] * 256) + b[4]>>
          IN /\ wRequestAndType = k[1]
             /\ wValue = k[2]
             /\ wLength = b[7]
             /\ <<response_addr, response_len>> = <<ResolveAddr(k), ResolveLen(k)>>
             /\ <<fsm', bytes_addr', bytes_remaining', new_address'>>
                   = Served(k, b[7], spkt.is_in)
      ]_vars

C11_Witness ==
    /\ fsm = "SETUP-IN" /\ npkts = MaxSetups
    /\ spkt.bytes = <<128, 6, 0, 1, 9, 4, 18, 1, 77, 88>>
    /\ bytes_remaining = 18

(* C12: SETUP is left only in a cycle with index 10, by the first branch   *)
(* that applies: key 0x0005 latches wValue[8:15) and goes to               *)
(* WAIT-TRANSACTION, whatever the direction, wValue and table; else an IN  *)
(* request with resolver length > 0 goes to SETUP-IN with the cursor at    *)
(* (resolver offset, min(resolver length, wLength)); else IDLE.  Below     *)
(* index 10 the machine stays in SETUP and keeps latch and cursor.         *)
C12_SetupBranches ==
    /\ [](fsm = "SETUP" => setup_index <= SetupDone)
    /\ [][ fsm = "SETUP" =>
             IF setup_index < SetupDone
             THEN /\ fsm' = "SETUP"
                  /\ new_address' = new_address
                  /\ <<bytes_addr', bytes_remaining'>> = <<bytes_addr, bytes_remaining>>
             ELSE IF wRequestAndType = SetAddressRequest
             THEN /\ fsm' = "WAIT-TRANSACTION"
                  /\ new_address' = (wValue \div 256) % NewAddressMod
                  /\ <<bytes_addr', bytes_remaining'>> = <<bytes_addr, bytes_remaining>>
             ELSE IF setup_is_in /\ response_len > 0
             THEN /\ fsm' = "SETUP-IN"
                  /\ bytes_addr' = response_addr
                  /\ bytes_remaining' = Min(response_len, wLength)
                  /\ new_address' = new_address
             ELSE /\ fsm' = "IDLE"
                  /\ new_address' = new_address
                  /\ <<bytes_addr', bytes_remaining'>> = <<bytes_addr, bytes_remaining>>
          ]_vars

C12_Witness ==
    /\ fsm = "SETUP-IN" /\ ~delayed_re /\ setup_is_in
    /\ wLength = 8 /\ response_len = 18
    /\ bytes_remaining = 8 /\ bytes_addr = response_addr

(* C13: SETUP-IN is not left while the remaining count is nonzero, even    *)
(* with the IN event pending; it goes to WAIT-TRANSACTION in exactly the   *)
(* cycles with remaining count 0 and the IN event pending, and never       *)
(* acknowledges the event itself.                                          *)
C13_SetupInExit ==
    /\ [](fsm = "SETUP-IN" => ~in_ev_pending_re)
    /\ [][ fsm = "SETUP-IN" =>
             fsm' = IF bytes_remaining = 0 /\ in_ev_pending
                    THEN "WAIT-TRANSACTION" ELSE "SETUP-IN"
          ]_vars

C13_Witness == fsm = "SETUP-IN" /\ bytes_remaining > 1 /\ in_ev_pending /\ delayed_re

(* C14: in every cycle in WAIT-TRANSACTION the OUT-consume strobe is high; *)
(* the machine returns to IDLE in exactly the cycles with the IN event     *)
(* pending, which are exactly the cycles that acknowledge it, and stays    *)
(* otherwise, whatever the OUT event.                                      *)
C14_WaitTransaction ==
    /\ [](fsm = "WAIT-TRANSACTION" =>
            (out_data_we /\ (in_ev_pending_re <=> in_ev_pending)))
    /\ [][ fsm = "WAIT-TRANSACTION" =>
             fsm' = IF in_ev_pending THEN "IDLE" ELSE "WAIT-TRANSACTION"
          ]_vars

C14_Witness == fsm = "WAIT-TRANSACTION" /\ out_ev_pending /\ ~in_ev_pending

(* C15: from reset WAIT-OUT is never reached, and the state changes only   *)
(* along IDLE->WAIT, WAIT->SETUP, WAIT->ECHO, SETUP->IDLE,                 *)
(* SETUP->WAIT-TRANSACTION, SETUP->SETUP-IN, SETUP-IN->WAIT-TRANSACTION,   *)
(* ECHO->WAIT-TRANSACTION and WAIT-TRANSACTION->IDLE; IDLE and ECHO are    *)
(* left after one cycle whatever the inputs.                               *)
Transitions ==
    { <<"IDLE", "WAIT">>, <<"WAIT", "SETUP">>, <<"WAIT", "ECHO">>,
      <<"SETUP", "IDLE">>, <<"SETUP", "WAIT-TRANSACTION">>,
      <<"SETUP", "SETUP-IN">>, <<"SETUP-IN", "WAIT-TRANSACTION">>,
      <<"ECHO", "WAIT-TRANSACTION">>, <<"WAIT-TRANSACTION", "IDLE">> }

C15_ReachableTransitions ==
    /\ [](fsm # "WAIT-OUT")
    /\ [][ /\ (fsm' # fsm => <<fsm, fsm'>> \in Transitions)
            /\ ((Built /\ fsm = "IDLE") => fsm' = "WAIT")
            /\ (fsm = "ECHO" => fsm' = "WAIT-TRANSACTION")
          ]_vars

C15_Witness == fsm = "WAIT-TRANSACTION" /\ out_host # <<>> /\ in_log = out_host

(* C16: the assembly index is reset to 0 only by a cycle in WAIT with a    *)
(* SETUP packet available; usbPacket (key and value) and wLength change    *)
(* only in SETUP; in IDLE, SETUP-IN, WAIT-TRANSACTION and ECHO a SETUP     *)
(* byte on offer is not acknowledged and stays on offer, and the request   *)
(* registers keep their value.                                             *)
C16_SingleInFlight ==
    /\ [](setup_data_we => fsm = "SETUP")
    /\ [][ /\ ((setup_index # 0 /\ setup_index' = 0) => (fsm = "WAIT" /\ setup_have))
            /\ (<<usbPacket', wLength'>> # <<usbPacket, wLength>> => fsm = "SETUP")
            /\ ((fsm \in {"IDLE", "SETUP-IN", "WAIT-TRANSACTION", "ECHO"} /\ setup_have)
                  => (/\ setup_have' /\ spos' = spos /\ spkt' = spkt
                      /\ setup_index' = setup_index))
          ]_vars

C16_Witness ==
    /\ fsm = "SETUP-IN" /\ setup_have /\ bytes_remaining > 0
    /\ npkts = 1 /\ spos = Len(spkt.bytes)

(* C17: the address latch starts at 0 and changes only in the cycle in     *)
(* which SETUP completes (index 10) with key 0x0005, to wValue[8:15);      *)
(* every other cycle (descriptor and unmatched requests, echo) keeps it,   *)
(* and each cycle in IDLE writes the latch, hence the value of the most    *)
(* recent SET_ADDRESS, to the engine's address register.                   *)
SetAddressCompletes ==
    fsm = "SETUP" /\ setup_index = SetupDone /\ wRequestAndType = SetAddressRequest

C17_LatchPersists ==
    /\ (~Built => new_address = 0)
    /\ [][ /\ (new_address' # new_address => SetAddressCompletes)
            /\ (SetAddressCompletes => new_address' = AddressOf(wValue))
            /\ ((Built /\ fsm = "IDLE") => (address_re /\ address' = new_address))
          ]_vars

C17_Witness ==
    /\ fsm = "WAIT" /\ npkts = MaxSetups /\ setup_index >= SetupDone
    /\ wRequestAndType = GetDescriptorRequest
    /\ new_address = 42 /\ address = 42

(* C18 as claimed: setup_data.we is high exactly in the cycles in SETUP    *)
(* with a byte available, each of which adds one to the index; the index   *)
(* never exceeds 10, and no byte is acknowledged in the cycle with index   *)
(* 10, in which SETUP is left.                                             *)
C18_TenBytesPerSetup ==
    /\ [](setup_data_we <=> (fsm = "SETUP" /\ setup_have))
    /\ [](setup_index <= SetupDone)
    /\ []((fsm = "SETUP" /\ setup_index = SetupDone) => ~setup_data_we)
    /\ [][ setup_data_we => setup_index' = setup_index + 1 ]_vars

(* C19 as claimed: in SETUP-IN, with (o, l) the offset and length of the   *)
(* matched entry and n = min(l, wLength), cursor address + remaining count *)
(* = o + n, and an address whose byte is written to in_data lies in        *)
(* [o, o + l).                                                             *)
C19_CursorBounds ==
    (fsm = "SETUP-IN" /\ Key \in DOMAIN offsets) =>
        LET o == offsets[Key]
            l == lengths[Key]
            n == Min(l, wLength)
        IN /\ bytes_addr + bytes_remaining = o + n
           /\ bytes_remaining <= n
           /\ (delayed_re => (bytes_addr - 1 >= o /\ bytes_addr - 1 < o + l))

(* C20 as claimed: with the IN event a sticky flag, in the cycle in which  *)
(* SETUP hands over to SETUP-IN or WAIT-TRANSACTION no IN event raised     *)
(* before this request is still pending, so that the return to IDLE, and   *)
(* the write of a new address, wait for the IN event of this request.      *)
C20_NoStaleInEvent ==
    [][ (fsm = "SETUP" /\ fsm' \in {"SETUP-IN", "WAIT-TRANSACTION"})
          => ~in_ev_pending ]_vars

====
